---- MODULE Spec2Model ----
(***************************************************************************)
(* Vocal pitch post-processing pipeline of PitchTrack                      *)
(* (detect_vocal_pitch in prototype/src/vocal_pitch_detector.py, repeated  *)
(* in VocalProcessingThread.run of pitch_track.py and vocal_visualizer.py).*)
(*                                                                         *)
(* Numbers.  Probabilities, energies, confidences and the parameters are   *)
(* exact rationals [n, d] in lowest terms with d > 0 (the code's floats    *)
(* without rounding).  A pitch is an integer code on a logarithmic         *)
(* frequency grid: a code c > 0 stands for the frequency                   *)
(* 440 * 2^((c - 3*StepsPerOctave) / StepsPerOctave) Hz, the code 0 for    *)
(* 0 Hz and a negative code for a negative frequency.  The coding keeps    *)
(* the order of frequencies and their sign, log2(a/b) is                   *)
(* (a - b)/StepsPerOctave exactly, and a frequency is halved or doubled by *)
(* moving its code one octave down or up.                                  *)
(*                                                                         *)
(* Arrays are functions on 0..N-1, indexed as in the source.               *)
(***************************************************************************)
EXTENDS Integers, Sequences, FiniteSets, TLC

VARIABLES
    f0,                   \* raw pitch per frame (librosa.pyin)
    voiced_flag,          \* voiced flag per frame (librosa.pyin)
    voiced_probs,         \* voicing probability per frame (librosa.pyin)
    energy,               \* RMS energy per frame, normalised by CalculateEnergy
    energy_threshold,     \* parameters of the run
    median_filter_size,
    continuity_tolerance,
    octave_cost,
    confidence,           \* confidence per frame
    processed_pitch,      \* the pitch buffer the stages mutate
    smoothed_pitch,       \* the smoother's copy of the buffer
    segments,             \* the voiced runs, a sequence of <<start, end>>
    i,                    \* index of the continuity loop
    k,                    \* index of the segment the smoother is at
    pc,                   \* the stage the run is at
    caller,               \* who runs the pipeline
    resmoothed,           \* times the smoother was run again on its own output
    file,                 \* the audio file the run reads
    args,                 \* the parsed command line (main)
    result,               \* what the run handed to its caller, None before that
    saved,                \* the JSON objects written by save_results
    open_button,          \* PitchTrack: the Open button is enabled
    processing_thread,    \* PitchTrack.processing_thread
    in_flight,            \* worker threads started whose result is not yet handled
    filter_slider,        \* PitchTrack.filter_slider.value()
    gui_median_filter_size,   \* PitchTrack.median_filter_size
    loaded,               \* PitchTrack: audio, pitch and confidence data on display
    loads,                \* files opened so far
    history,              \* the finished loads: file, filter size and payload
    signals,              \* the signals the worker thread has emitted in its run
    play_button,          \* PitchTrack: the Play and Rewind buttons are enabled
    is_playing,           \* PitchTrack.is_playing
    current_frame,        \* PitchTrack.current_frame
    audio_position,       \* PitchTrack.audio_position, in samples
    audio_stream,         \* PitchTrack.audio_stream is an active stream (not None)
    timer,                \* PitchTrack.timer is running
    pitch_history,        \* PianoRollDisplay.pitch_history
    confidence_history,   \* PianoRollDisplay.confidence_history
    recent_notes          \* PianoRollDisplay.recent_notes

vars == <<f0, voiced_flag, voiced_probs, energy, energy_threshold,
          median_filter_size, continuity_tolerance, octave_cost, confidence,
          processed_pitch, smoothed_pitch, segments, i, k, pc,
          caller, resmoothed, file, args, result, saved, open_button,
          processing_thread, in_flight, filter_slider, gui_median_filter_size,
          loaded, loads, history, signals, play_button, is_playing, current_frame,
          audio_position, audio_stream, timer, pitch_history, confidence_history,
          recent_notes>>

\* Playback of the loaded file, and the piano-roll display.
player == <<play_button, is_playing, current_frame, audio_position, audio_stream, timer>>
display == <<pitch_history, confidence_history, recent_notes>>

\* The window of the application.
gui == <<open_button, processing_thread, in_flight, filter_slider,
         gui_median_filter_size, loaded, loads, history, player, display>>

\* What surrounds a run of the pipeline.
app == <<caller, resmoothed, file, args, result, saved, gui>>

\* The arrays and loop indices local to a run.
locals == <<confidence, processed_pitch, smoothed_pitch, segments, i, k>>

inputs == <<f0, voiced_flag, voiced_probs>>
params == <<energy_threshold, median_filter_size, continuity_tolerance, octave_cost>>

---------------------------------------------------------------------------
(* Bounds of the model *)

\* Longest input of the family that varies every per-frame input.
MaxSynthFrames == 2

\* Longest input of the family that varies the pitch contour.
MaxFrames == 3

\* Longest input of the family that varies where the voiced runs lie.
MaxPatternFrames == 9

\* Longest input of the family of steady notes, and the number of times the
\* smoother is run again on its own output.
MaxFlatFrames == 6
MaxResmooth == 1

\* Longest recording handed to the command line, and the number of files
\* opened in one session of the window.
MaxCliFrames == 6
MaxLoads == 3

\* Resolution of the logarithmic pitch grid: codes per octave.
StepsPerOctave == 20

---------------------------------------------------------------------------
(* Exact rational arithmetic *)

Abs(x) == IF x < 0 THEN -x ELSE x

RECURSIVE GCD(_, _)
GCD(a, b) == IF b = 0 THEN a ELSE GCD(b, a % b)

Rat(n, d) ==
    LET g == GCD(Abs(n), d)
    IN  [n |-> (IF n < 0 THEN -(Abs(n) \div g) ELSE n \div g), d |-> d \div g]

RAdd(a, b) == Rat(a.n * b.d + b.n * a.d, a.d * b.d)
RSub(a, b) == Rat(a.n * b.d - b.n * a.d, a.d * b.d)
RMul(a, b) == Rat(a.n * b.n, a.d * b.d)
RDiv(a, b) == Rat(a.n * b.d, a.d * b.n)        \* b > 0
RAbs(a) == [n |-> Abs(a.n), d |-> a.d]
RLt(a, b) == a.n * b.d < b.n * a.d
RLe(a, b) == a.n * b.d <= b.n * a.d

Zero == Rat(0, 1)
One == Rat(1, 1)
Half == Rat(1, 2)
Tenth == Rat(1, 10)

NFrames(a) == Cardinality(DOMAIN a)

---------------------------------------------------------------------------
(* Parameters: the defaults of detect_vocal_pitch and the values explored *)

DefaultEnergyThreshold == Rat(1, 20)        \* energy_threshold=0.05
DefaultContinuityTolerance == Rat(1, 5)     \* continuity_tolerance=0.2
DefaultOctaveCost == Rat(9, 10)             \* octave_cost=0.9

\* The threshold is not validated: a negative value is accepted.
EnergyThresholds == {Rat(-1, 10), Zero, DefaultEnergyThreshold}
MedianFilterSizes == {3}
PatternFilterSizes == {3, 5}

\* (threshold, tolerance, octave cost) of the contour runs: the defaults, and
\* each parameter moved away from its default in turn.
Params(thr, tol, cost) == [thr |-> thr, tol |-> tol, cost |-> cost]
ContourParams ==
    {Params(DefaultEnergyThreshold, DefaultContinuityTolerance, DefaultOctaveCost),
     Params(Rat(3, 5), DefaultContinuityTolerance, DefaultOctaveCost),
     Params(DefaultEnergyThreshold, Rat(11, 10), DefaultOctaveCost),
     Params(DefaultEnergyThreshold, DefaultContinuityTolerance, Zero)}

---------------------------------------------------------------------------
(* Inputs: what librosa.pyin and librosa.feature.rms hand to the pipeline *)

\* 440 Hz, its octaves below and above, and a pitch just under the upper one.
A220 == 2 * StepsPerOctave
A440 == 3 * StepsPerOctave
A880 == 4 * StepsPerOctave
NearA880 == A880 - 1
A1760 == 5 * StepsPerOctave
E330 == A220 + (3 * StepsPerOctave) \div 5      \* a fifth above A220

\* (voiced flag, voicing probability) pairs of a frame.
Voicing(flag, prob) == [flag |-> flag, prob |-> prob]
SynthVoicings == {Voicing(FALSE, Tenth), Voicing(TRUE, Tenth), Voicing(TRUE, One)}
ContourVoicings == {Voicing(FALSE, Tenth), Voicing(TRUE, Rat(3, 5)), Voicing(TRUE, One)}
RepairProbs == {Half, Rat(3, 4), One}

\* Raw RMS values of a frame, before normalisation.
RawEnergies == {Zero, Half, One}

\* Raw pitches: a negative and a zero estimate (unvoiced), and voiced ones.
SynthPitches == {-1, 0, A440}
ContourPitches == {A220, A440, NearA880, A880}
IntervalPitches == ContourPitches \cup {E330, A1760}

Frame(p, v, e) == [f0 |-> p, voicing |-> v, energy |-> e]
SynthFrames == {Frame(p, v, e) : p \in SynthPitches, v \in SynthVoicings, e \in RawEnergies}
ContourFrames == {Frame(p, v, One) : p \in ContourPitches, v \in ContourVoicings}
IntervalFrames == {Frame(p, v, One) : p \in IntervalPitches, v \in ContourVoicings}

\* The state when the pipeline starts on the given frames and parameters.
Begin(fr, thr, tol, cost, mfs) ==
    /\ f0 = [j \in DOMAIN fr |-> fr[j].f0]
    /\ voiced_flag = [j \in DOMAIN fr |-> fr[j].voicing.flag]
    /\ voiced_probs = [j \in DOMAIN fr |-> fr[j].voicing.prob]
    /\ energy = [j \in DOMAIN fr |-> fr[j].energy]
    /\ energy_threshold = thr
    /\ continuity_tolerance = tol
    /\ octave_cost = cost
    /\ median_filter_size = mfs
    /\ confidence = << >>
    /\ processed_pitch = << >>
    /\ smoothed_pitch = << >>
    /\ segments = << >>
    /\ i = 0
    /\ k = 0
    /\ pc = "energy"

\* Python's None, and a value that is present.
None == {}
Some(v) == {v}
ValueOf(o) == CHOOSE v \in o : TRUE

\* progress_signal.emit(n) and finished_signal.emit(.., .., .., sample_rate);
\* the other arguments of finished_signal are held in result.
ProgressSignal(n) == [signal |-> "progress_signal", value |-> n]
FinishedSignal(sample_rate) == [signal |-> "finished_signal", value |-> sample_rate]

\* The worker thread emits the signals s; detect_vocal_pitch, which the
\* command line calls, has no signals.
Emit(s) == signals' = IF caller = "gui" THEN signals \o s ELSE signals

\* A file: the frames the estimator and the RMS give for it, or one that
\* librosa.load cannot decode.
AudioFile(fr) == [frames |-> fr, broken |-> FALSE]
BrokenFile == [frames |-> << >>, broken |-> TRUE]

\* Defaults of the window's sliders and of the command line.
DefaultMedianFilterSize == 11
NoArgs == [median_filter_size |-> DefaultMedianFilterSize]

\* Nothing is played: PitchTrack.__init__, lines 515-529.
NoPlayback ==
    /\ is_playing = FALSE
    /\ current_frame = 0
    /\ audio_position = 0
    /\ audio_stream = FALSE
    /\ timer = FALSE

\* No window exists.
NoGui ==
    /\ open_button = FALSE
    /\ processing_thread = None
    /\ in_flight = 0
    /\ filter_slider = DefaultMedianFilterSize
    /\ gui_median_filter_size = DefaultMedianFilterSize
    /\ loaded = None
    /\ loads = 0
    /\ history = << >>
    /\ signals = << >>
    /\ play_button = FALSE
    /\ NoPlayback
    /\ pitch_history = << >>
    /\ confidence_history = << >>
    /\ recent_notes = << >>

\* detect_vocal_pitch is called with the estimator's outputs at hand: nothing
\* surrounds the run.
Standalone(who) ==
    /\ caller = who
    /\ resmoothed = 0
    /\ file = BrokenFile
    /\ args = NoArgs
    /\ result = None
    /\ saved = << >>
    /\ NoGui

\* The state when detect_vocal_pitch is called on its own.
Start(fr, thr, tol, cost, mfs) ==
    /\ Standalone("direct")
    /\ Begin(fr, thr, tol, cost, mfs)

\* Every per-frame input varies, over short recordings.
InitSynth ==
    \E n \in 1..MaxSynthFrames : \E fr \in [0..(n - 1) -> SynthFrames] :
        \E thr \in EnergyThresholds : \E mfs \in MedianFilterSizes :
            Start(fr, thr, DefaultContinuityTolerance, DefaultOctaveCost, mfs)

\* The pitch contour, the voicing and the parameters vary.
InitContour ==
    \E n \in 2..MaxFrames : \E fr \in [0..(n - 1) -> ContourFrames] :
        \E par \in ContourParams : \E mfs \in MedianFilterSizes :
            Start(fr, par.thr, par.tol, par.cost, mfs)

\* Two frames, over a wider choice of intervals between them.
InitInterval ==
    \E fr \in [0..1 -> IntervalFrames] :
        \E par \in ContourParams : \E mfs \in MedianFilterSizes :
            Start(fr, par.thr, par.tol, par.cost, mfs)

\* A single octave error in a steady note: [p, 2p, p, p] and [p, p/2, p, p].
InitRepair ==
    \E p \in {A220, A440, A880} : \E q \in {p + StepsPerOctave, p - StepsPerOctave} :
        \E vp \in [0..3 -> RepairProbs] : \E mfs \in MedianFilterSizes :
            Start([j \in 0..3 |-> Frame(IF j = 1 THEN q ELSE p, Voicing(TRUE, vp[j]), One)],
                  DefaultEnergyThreshold, DefaultContinuityTolerance, DefaultOctaveCost, mfs)

\* A melody that wanders by small steps around 440 Hz, never monotone over
\* three frames: the pitch the estimator reports at frame j.
PatternPitch(j) == A440 + (j \div 2) + 2 * (j % 2)

\* Every placement of voiced and unvoiced frames along the melody.
InitPattern ==
    \E n \in 1..MaxPatternFrames : \E voiced \in [0..(n - 1) -> BOOLEAN] :
        \E mfs \in PatternFilterSizes :
            Start([j \in 0..(n - 1) |->
                      Frame(PatternPitch(j), Voicing(voiced[j], One), One)],
                  DefaultEnergyThreshold, DefaultContinuityTolerance, DefaultOctaveCost, mfs)

\* Steady notes and rests: every frame is unvoiced or holds one of two notes
\* a fifth apart, so a voiced run is constant or not; the filter sizes reach
\* from the identity kernel to one as long as the recording.
FlatFilterSizes == {1, 3, 5}
FlatFrames == {Frame(A440, Voicing(FALSE, Tenth), One),
               Frame(A440, Voicing(TRUE, One), One),
               Frame(E330, Voicing(TRUE, One), One)}

InitFlat ==
    \E n \in 1..MaxFlatFrames : \E fr \in [0..(n - 1) -> FlatFrames] :
        \E mfs \in FlatFilterSizes :
            /\ Standalone("smoother")
            /\ Begin(fr, DefaultEnergyThreshold, DefaultContinuityTolerance,
                     DefaultOctaveCost, mfs)

Init == InitSynth \/ InitContour \/ InitInterval \/ InitRepair \/ InitPattern

---------------------------------------------------------------------------
(* Energy: librosa.feature.rms, normalised by the maximum *)

RMax(a) == CHOOSE m \in {a[j] : j \in DOMAIN a} : \A j \in DOMAIN a : RLe(a[j], m)

\* Variant: the energies divided by their smallest positive value.
NormalizeEnergyByMin(e) ==
    LET pos == {e[j] : j \in DOMAIN e} \ {Zero}
        m == CHOOSE x \in pos : \A y \in pos : RLe(x, y)
    IN  IF pos # {} THEN [j \in DOMAIN e |-> RDiv(e[j], m)] ELSE e

NormalizeEnergy(e) ==
    IF RLt(Zero, RMax(e)) THEN [j \in DOMAIN e |-> RDiv(e[j], RMax(e))] ELSE e

CalculateEnergy ==
    /\ pc = "energy"
    /\ energy' = NormalizeEnergy(energy)
    /\ processed_pitch' = [j \in DOMAIN f0 |-> 0]
    /\ confidence' = [j \in DOMAIN f0 |-> Zero]
    /\ pc' = "confidence"
    /\ Emit(<<ProgressSignal(60)>>)
    /\ UNCHANGED <<app, inputs, params, smoothed_pitch, segments, i, k>>

---------------------------------------------------------------------------
(* Confidence synthesis *)

\* Variant: every frame shaped by the energy of frame 0.
ConfidenceValueFirstEnergy(j) ==
    IF voiced_flag[j] /\ f0[j] > 0
    THEN RMul(voiced_probs[j], RAdd(Half, RMul(Half, energy[0])))
    ELSE Zero

\* Variant: the voiced flag is not consulted.
ConfidenceValueUnflagged(j) ==
    IF f0[j] > 0
    THEN RMul(voiced_probs[j], RAdd(Half, RMul(Half, energy[j])))
    ELSE Zero

ConfidenceValue(j) ==
    IF voiced_flag[j] /\ f0[j] > 0
    THEN RMul(voiced_probs[j], RAdd(Half, RMul(Half, energy[j])))
    ELSE Zero

FillConfidence ==
    /\ pc = "confidence"
    /\ confidence' = [j \in DOMAIN f0 |-> ConfidenceValue(j)]
    /\ pc' = "threshold"
    /\ UNCHANGED <<app, signals, inputs, params, energy, processed_pitch, smoothed_pitch,
                   segments, i, k>>

---------------------------------------------------------------------------
(* Confidence gating *)

\* Variant: a confidence equal to the threshold passes the gate.
ThresholdValueInclusive(j) ==
    IF RLe(energy_threshold, confidence[j]) /\ f0[j] > 0 THEN f0[j] ELSE 0

ThresholdValue(j) ==
    IF RLt(energy_threshold, confidence[j]) /\ f0[j] > 0 THEN f0[j] ELSE 0

ApplyThreshold ==
    /\ pc = "threshold"
    /\ processed_pitch' = [j \in DOMAIN f0 |-> ThresholdValue(j)]
    /\ i' = 1
    /\ pc' = IF 1 < NFrames(f0) THEN "continuity" ELSE "segments"
    /\ Emit(<<ProgressSignal(70)>>)
    /\ UNCHANGED <<app, inputs, params, energy, confidence, smoothed_pitch, segments, k>>

---------------------------------------------------------------------------
(* Octave-jump corrector: one iteration of the forward loop *)

Halve(p) == p - StepsPerOctave
Double(p) == p + StepsPerOctave

\* np.abs(np.log2(a / b)), in octaves
OctaveDiff(a, b) == RAbs(Rat(a - b, StepsPerOctave))

\* Both frames of the comparison carry a pitch.
BothVoiced(pp, j) == pp[j] > 0 /\ pp[j - 1] > 0

\* Variant: the tolerance fixed at its default, whatever the parameter is.
JumpTooLargeForDefault(octave_diff) == RLt(DefaultContinuityTolerance, octave_diff)

\* The jump exceeds the tolerance.
JumpTooLarge(octave_diff) == RLt(continuity_tolerance, octave_diff)

\* Variant: the octave window 1.1 wide instead of 0.1.
LikelyOctaveErrorWide(octave_diff) == RLt(RAbs(RSub(octave_diff, One)), Rat(11, 10))

\* The jump is within 0.1 of one octave.
LikelyOctaveError(octave_diff) == RLt(RAbs(RSub(octave_diff, One)), Tenth)

\* Variant: the octave cost left out of the comparison.
ConfidenceAllowsNoCost(j) == RLt(confidence[j], confidence[j - 1])

\* The confidence of frame j does not outweigh that of frame j-1.
ConfidenceAllows(j) ==
    RLt(confidence[j], RMul(confidence[j - 1], RAdd(One, octave_cost)))

\* Variant: a frame taken for an octave error is silenced, not moved.
AdjustOctaveMuted(cur, prev) == 0

\* Variant: the lower pitch halved and the higher one doubled.
AdjustOctaveAway(cur, prev) == IF cur > prev THEN Double(cur) ELSE Halve(cur)

\* The pitch moved one octave towards the previous frame's.
AdjustOctave(cur, prev) == IF cur > prev THEN Halve(cur) ELSE Double(cur)

\* Variant: only a jump upwards is taken for an octave error.
OctaveCorrectedDownOnly(cur, prev, j) ==
    LET octave_diff == OctaveDiff(cur, prev)
    IN  IF /\ JumpTooLarge(octave_diff) /\ LikelyOctaveError(octave_diff)
           /\ ConfidenceAllows(j) /\ cur > prev
        THEN Halve(cur)
        ELSE cur

\* Variant: the confidences are not compared.
OctaveCorrectedUnweighted(cur, prev, j) ==
    LET octave_diff == OctaveDiff(cur, prev)
    IN  IF JumpTooLarge(octave_diff) /\ LikelyOctaveError(octave_diff)
        THEN AdjustOctave(cur, prev)
        ELSE cur

\* The pitch cur of frame j after its comparison with the pitch prev.
OctaveCorrected(cur, prev, j) ==
    LET octave_diff == OctaveDiff(cur, prev)
    IN  IF JumpTooLarge(octave_diff) /\ LikelyOctaveError(octave_diff) /\ ConfidenceAllows(j)
        THEN AdjustOctave(cur, prev)
        ELSE cur

\* Variant: a gated-out frame takes over the pitch of the frame before it.
ContinuityValueHoldOver(pp, j) ==
    IF pp[j] > 0 /\ pp[j - 1] > 0 THEN OctaveCorrected(pp[j], pp[j - 1], j)
    ELSE IF pp[j - 1] > 0 THEN pp[j - 1] ELSE pp[j]

\* Variant: the previous frame is tested and read in the raw estimate f0.
ContinuityValueRawPrevious(pp, j) ==
    IF pp[j] > 0 /\ f0[j - 1] > 0 THEN OctaveCorrected(pp[j], f0[j - 1], j) ELSE pp[j]

\* Variant: a voiced previous frame is read as it was before its correction.
ContinuityValueUncorrected(pp, j) ==
    IF pp[j] > 0 /\ pp[j - 1] > 0 THEN OctaveCorrected(pp[j], f0[j - 1], j) ELSE pp[j]

\* The value iteration j leaves in frame j of the buffer pp.
ContinuityValue(pp, j) ==
    IF BothVoiced(pp, j) THEN OctaveCorrected(pp[j], pp[j - 1], j) ELSE pp[j]

\* Variant: a corrected frame has its confidence halved.
ContinuityStepPenalised ==
    /\ pc = "continuity"
    /\ processed_pitch' = [processed_pitch EXCEPT ![i] = ContinuityValue(processed_pitch, i)]
    /\ confidence' = [confidence EXCEPT ![i] =
                         IF ContinuityValue(processed_pitch, i) # processed_pitch[i]
                         THEN RMul(@, Half) ELSE @]
    /\ i' = i + 1
    /\ pc' = IF i + 1 < NFrames(processed_pitch) THEN "continuity" ELSE "segments"
    /\ UNCHANGED <<app, signals, inputs, params, energy, smoothed_pitch, segments, k>>

\* Variant: the forward loop is left after its first iteration.
ContinuityStepOnce ==
    /\ pc = "continuity"
    /\ processed_pitch' = [processed_pitch EXCEPT ![i] = ContinuityValue(processed_pitch, i)]
    /\ i' = i + 1
    /\ pc' = "segments"
    /\ UNCHANGED <<app, signals, inputs, params, energy, confidence, smoothed_pitch,
                   segments, k>>

ContinuityStep ==
    /\ pc = "continuity"
    /\ processed_pitch' = [processed_pitch EXCEPT ![i] = ContinuityValue(processed_pitch, i)]
    /\ i' = i + 1
    /\ pc' = IF i + 1 < NFrames(processed_pitch) THEN "continuity" ELSE "segments"
    /\ UNCHANGED <<app, signals, inputs, params, energy, confidence, smoothed_pitch,
                   segments, k>>

---------------------------------------------------------------------------
(* Segment-aware smoother *)

\* Variant: a run that reaches the last frame is never closed.
RECURSIVE SegmentScanOpenEnd(_, _, _, _)
SegmentScanOpenEnd(valid, j, segment_start, acc) ==
    IF j = NFrames(valid)
    THEN acc
    ELSE IF valid[j] /\ segment_start = -1
         THEN SegmentScanOpenEnd(valid, j + 1, j, acc)
         ELSE IF ~valid[j] /\ segment_start # -1
              THEN SegmentScanOpenEnd(valid, j + 1, -1, Append(acc, <<segment_start, j>>))
              ELSE SegmentScanOpenEnd(valid, j + 1, segment_start, acc)

\* The loop over valid_indices and the closing of the last segment.
RECURSIVE SegmentScan(_, _, _, _)
SegmentScan(valid, j, segment_start, acc) ==
    IF j = NFrames(valid)
    THEN IF segment_start # -1 THEN Append(acc, <<segment_start, j>>) ELSE acc
    ELSE IF valid[j] /\ segment_start = -1
         THEN SegmentScan(valid, j + 1, j, acc)
         ELSE IF ~valid[j] /\ segment_start # -1
              THEN SegmentScan(valid, j + 1, -1, Append(acc, <<segment_start, j>>))
              ELSE SegmentScan(valid, j + 1, segment_start, acc)

ValidIndices(pp) == [j \in DOMAIN pp |-> pp[j] > 0]

\* Variant: a buffer of the right length left by an earlier run is reused
\* without being overwritten.
NpCopyReused(a) == IF DOMAIN smoothed_pitch = DOMAIN a THEN smoothed_pitch ELSE a

\* np.copy: a fresh array with the values of a.
NpCopy(a) == a

FindSegments ==
    /\ pc = "segments"
    /\ IF \E j \in DOMAIN processed_pitch : ValidIndices(processed_pitch)[j]
       THEN /\ smoothed_pitch' = NpCopy(processed_pitch)
            /\ segments' = SegmentScan(ValidIndices(processed_pitch), 0, -1, << >>)
            /\ k' = 1
            /\ pc' = "medfilt"
       ELSE /\ pc' = "done"
            /\ UNCHANGED <<smoothed_pitch, segments, k>>
    /\ Emit(<<ProgressSignal(80)>>)
    /\ UNCHANGED <<app, inputs, params, energy, confidence, processed_pitch, i>>

\* Variant: the window sits one frame to the left of its centre.
MedianAtOffCentre(seg, ks, j) ==
    LET h == ks \div 2
        at(x) == IF x \in DOMAIN seg THEN seg[x] ELSE 0
        win == (j - h - 1)..(j + h - 1)
    IN  CHOOSE m \in {at(x) : x \in win} :
            /\ Cardinality({x \in win : at(x) < m}) <= h
            /\ Cardinality({x \in win : at(x) <= m}) >= h + 1

\* scipy.signal.medfilt: the median of the window of size ks around index j of
\* the array seg (a function on 0..n-1), zero-padded beyond both ends.
MedianAt(seg, ks, j) ==
    LET h == ks \div 2
        at(x) == IF x \in DOMAIN seg THEN seg[x] ELSE 0
        win == (j - h)..(j + h)
    IN  CHOOSE m \in {at(x) : x \in win} :
            /\ Cardinality({x \in win : at(x) < m}) <= h
            /\ Cardinality({x \in win : at(x) <= m}) >= h + 1

MedFilt(seg, ks) == [j \in DOMAIN seg |-> MedianAt(seg, ks, j)]

\* scipy.signal.medfilt raises ValueError for a kernel size that is not odd.
MedFiltRejects(ks) == ks % 2 # 1

\* Variant: the window slides over the whole buffer instead of over the
\* segment's own slice, so it reads frames beyond the segment's ends.
SmoothedSegmentWholeBuffer(pp, start, end) ==
    LET whole == MedFilt(pp, median_filter_size)
    IN  [j \in 0..(end - start - 1) |-> whole[start + j]]

\* segment = processed_pitch[start:end]; medfilt(segment, median_filter_size)
SmoothedSegment(pp, start, end) ==
    LET segment == [j \in 0..(end - start - 1) |-> pp[start + j]]
    IN  MedFilt(segment, median_filter_size)

\* Variant: every segment is filtered, however short.
SmoothSegmentAlways(sm, pp, start, end) ==
    LET smoothed_segment == SmoothedSegment(pp, start, end)
    IN  [j \in DOMAIN sm |->
            IF start <= j /\ j < end THEN smoothed_segment[j - start] ELSE sm[j]]

\* Variant: a segment exactly as long as the filter is filtered too.
SmoothSegmentInclusive(sm, pp, start, end) ==
    IF end - start >= median_filter_size
    THEN LET smoothed_segment == SmoothedSegment(pp, start, end)
         IN  [j \in DOMAIN sm |->
                 IF start <= j /\ j < end THEN smoothed_segment[j - start] ELSE sm[j]]
    ELSE sm

\* The buffer after the segment [start, end) has been handled.
SmoothSegment(sm, pp, start, end) ==
    IF end - start > median_filter_size
    THEN LET smoothed_segment == SmoothedSegment(pp, start, end)
         IN  [j \in DOMAIN sm |->
                 IF start <= j /\ j < end THEN smoothed_segment[j - start] ELSE sm[j]]
    ELSE sm

MedianFilterSegment ==
    /\ pc = "medfilt"
    /\ IF /\ segments[k][2] - segments[k][1] > median_filter_size
          /\ MedFiltRejects(median_filter_size)
       THEN /\ pc' = "raised"
            /\ UNCHANGED <<smoothed_pitch, processed_pitch, k>>
       ELSE LET sm == SmoothSegment(smoothed_pitch, processed_pitch,
                                    segments[k][1], segments[k][2])
            IN  /\ smoothed_pitch' = sm
                /\ IF k < Len(segments)
                   THEN /\ k' = k + 1
                        /\ pc' = "medfilt"
                        /\ UNCHANGED processed_pitch
                   ELSE /\ processed_pitch' = sm
                        /\ pc' = "done"
                        /\ UNCHANGED k
    /\ UNCHANGED <<app, signals, inputs, params, energy, confidence, segments, i>>

---------------------------------------------------------------------------

Next ==
    \/ CalculateEnergy
    \/ FillConfidence
    \/ ApplyThreshold
    \/ ContinuityStep
    \/ FindSegments
    \/ MedianFilterSegment

Spec == Init /\ [][Next]_vars

\* The smoother (lines 101-130) applied once more to the buffer it returned.
SmoothAgain ==
    /\ pc = "done"
    /\ caller = "smoother"
    /\ resmoothed < MaxResmooth
    /\ resmoothed' = resmoothed + 1
    /\ pc' = "segments"
    /\ UNCHANGED <<caller, file, args, result, saved, gui, signals, inputs, params,
                   energy, locals>>

NextSmoother == Next \/ SmoothAgain

\* The pipeline on steady notes, followed by further passes of the smoother.
SpecSmoother == InitFlat /\ [][NextSmoother]_vars

TypeOK ==
    /\ pc \in {"energy", "confidence", "threshold", "continuity", "segments", "medfilt",
               "done", "raised", "main", "load", "returned", "exit", "idle", "emitted"}
    /\ \A j \in DOMAIN energy : energy[j].d > 0

---------------------------------------------------------------------------
(* The callers: the command line (main) and the window (PitchTrack) *)

HopLength == 512
SampleRate == 44100

\* Filter sizes given on the command line, and stops of the window's slider.
CliFilterSizes == {3, 4, 5}
SliderStops == {3, 4}

\* A recording of n frames along the melody, moved up by shift, voiced on the
\* frames in voiced.
Melody(n, voiced, shift) ==
    [j \in 0..(n - 1) |->
        Frame(PatternPitch(j) + shift, Voicing(j \in voiced, One), One)]

CliFiles ==
    {AudioFile(Melody(n, voiced, 0)) :
        n \in 1..MaxCliFrames, voiced \in SUBSET (0..(MaxCliFrames - 1))}
        \cup {BrokenFile}

\* Two recordings of one length, and a file that cannot be decoded.
GuiFiles ==
    {AudioFile(Melody(6, 0..5, 0)), AudioFile(Melody(6, {0, 1, 3, 4, 5}, 3)), BrokenFile}

\* No run has started: no array exists, the parameters are the defaults.
NoRun ==
    /\ f0 = << >> /\ voiced_flag = << >> /\ voiced_probs = << >> /\ energy = << >>
    /\ energy_threshold = DefaultEnergyThreshold
    /\ median_filter_size = DefaultMedianFilterSize
    /\ continuity_tolerance = DefaultContinuityTolerance
    /\ octave_cost = DefaultOctaveCost
    /\ confidence = << >> /\ processed_pitch = << >> /\ smoothed_pitch = << >>
    /\ segments = << >> /\ i = 0 /\ k = 0

\* python vocal_pitch_detector.py FILE --median-filter-size SIZE
InitCli ==
    \E f \in CliFiles : \E size \in CliFilterSizes :
        /\ caller = "cli"
        /\ pc = "main"
        /\ file = f
        /\ args = [median_filter_size |-> size]
        /\ resmoothed = 0 /\ result = None /\ saved = << >>
        /\ NoGui
        /\ NoRun

\* The display keeps history_size entries: int(5.0 * 44100 / 512) = 430 in
\* the program, fewer here.
HistorySize == 4

\* PianoRollDisplay.smoothing_window, and PitchTrack.audio_buffer_size.
SmoothingWindow == 5
AudioBufferSize == 1024

\* int(round(freq_to_midi(frequency))): 69 + 12 * log2(frequency / 440),
\* rounded to the nearest integer.
MidiNote(frequency) ==
    LET twice == 2 * 12 * (frequency - A440)
    IN  69 + ((twice + StepsPerOctave) \div (2 * StepsPerOctave))

\* The three lists of the display.
Display ==
    [pitch_history |-> pitch_history, confidence_history |-> confidence_history,
     recent_notes |-> recent_notes]

ShowDisplay(lists) ==
    /\ pitch_history' = lists.pitch_history
    /\ confidence_history' = lists.confidence_history
    /\ recent_notes' = lists.recent_notes

\* Variant: no entry is ever dropped.
HistoryFullNever(appended) == FALSE

\* len(self.pitch_history) > self.history_size
HistoryFull(appended) == Len(appended) > HistorySize

\* if len(self.recent_notes) > self.smoothing_window: self.recent_notes.pop(0)
KeepRecent(notes) == IF Len(notes) > SmoothingWindow THEN Tail(notes) ELSE notes

\* PianoRollDisplay.add_pitch(frequency, confidence), conf being the
\* confidence; both histories are popped under the one test of
\* pitch_history's length.
AddPitch(lists, frequency, conf) ==
    LET pitches == Append(lists.pitch_history, frequency)
        confidences == Append(lists.confidence_history, conf)
    IN  [pitch_history |-> IF HistoryFull(pitches) THEN Tail(pitches) ELSE pitches,
         confidence_history |->
             IF HistoryFull(pitches) THEN Tail(confidences) ELSE confidences,
         recent_notes |->
             IF frequency > 0 /\ RLt(Tenth, conf)
             THEN KeepRecent(Append(lists.recent_notes, MidiNote(frequency)))
             ELSE << >>]

\* for _ in range(n): add_pitch(frequency, confidence)
RECURSIVE AddPitchTimes(_, _, _, _)
AddPitchTimes(lists, n, frequency, conf) ==
    IF n = 0
    THEN lists
    ELSE AddPitchTimes(AddPitch(lists, frequency, conf), n - 1, frequency, conf)

\* PitchTrack.__init__: the window with its sliders at their defaults.
InitGui ==
    /\ caller = "gui"
    /\ pc = "idle"
    /\ file = BrokenFile
    /\ args = NoArgs
    /\ resmoothed = 0 /\ result = None /\ saved = << >>
    /\ open_button = TRUE
    /\ processing_thread = None
    /\ in_flight = 0
    /\ filter_slider = DefaultMedianFilterSize
    /\ gui_median_filter_size = DefaultMedianFilterSize
    /\ loaded = None
    /\ loads = 0
    /\ history = << >>
    /\ signals = << >>
    /\ play_button = FALSE
    /\ NoPlayback
    /\ pitch_history = [x \in 1..HistorySize |-> 0]
    /\ confidence_history = [x \in 1..HistorySize |-> Zero]
    /\ recent_notes = << >>
    /\ NoRun

InitApp == InitCli \/ InitGui

\* main: the parsed arguments are passed to detect_vocal_pitch as they are.
Main ==
    /\ pc = "main"
    /\ caller = "cli"
    /\ energy_threshold' = DefaultEnergyThreshold
    /\ median_filter_size' = args.median_filter_size
    /\ continuity_tolerance' = DefaultContinuityTolerance
    /\ octave_cost' = DefaultOctaveCost
    /\ pc' = "load"
    /\ UNCHANGED <<app, signals, inputs, energy, locals>>

\* Variant: a failed run hands over the pitch buffer as far as it got.
FailurePayloadPartial ==
    [audio_data |-> None, pitch_data |-> Some(processed_pitch),
     confidence_data |-> None, sample_rate |-> 0]

\* except Exception: finished_signal.emit(None, None, None, 0)
FailurePayload ==
    [audio_data |-> None, pitch_data |-> None, confidence_data |-> None, sample_rate |-> 0]

\* Variant: the handler completes the progress bar before it reports.
OnExceptionCompleted ==
    <<ProgressSignal(100), FinishedSignal(FailurePayload.sample_rate)>>

\* except Exception: the one signal the handler emits.
OnException == <<FinishedSignal(FailurePayload.sample_rate)>>

\* librosa.load, librosa.feature.rms and librosa.pyin: they raise for a file
\* that cannot be decoded, and deliver the per-frame arrays otherwise.  The
\* exception leaves detect_vocal_pitch; the worker thread catches it.
LoadAudio ==
    /\ pc = "load"
    /\ IF file.broken
       THEN /\ IF caller = "gui"
               THEN result' = Some(FailurePayload) /\ pc' = "emitted"
               ELSE pc' = "raised" /\ UNCHANGED result
            /\ Emit(<<ProgressSignal(10)>> \o OnException)
            /\ UNCHANGED <<inputs, energy>>
       ELSE /\ f0' = [j \in DOMAIN file.frames |-> file.frames[j].f0]
            /\ voiced_flag' = [j \in DOMAIN file.frames |-> file.frames[j].voicing.flag]
            /\ voiced_probs' = [j \in DOMAIN file.frames |-> file.frames[j].voicing.prob]
            /\ energy' = [j \in DOMAIN file.frames |-> file.frames[j].energy]
            /\ pc' = "energy"
            /\ Emit(<<ProgressSignal(10), ProgressSignal(20), ProgressSignal(30)>>)
            /\ UNCHANGED result
    /\ UNCHANGED <<caller, resmoothed, file, args, saved, gui, params, locals>>

\* ndarray.tolist(): a list of the array's values in order.
ToList(a) == [x \in 1..NFrames(a) |-> a[x - 1]]

\* Variant: a time stamp for every hop of the audio, one more than the frames.
TimesLikeAudio(a) == [j \in 0..NFrames(a) |-> Rat(j * HopLength, SampleRate)]

\* librosa.times_like(f0, sr, hop_length): the time of every frame of f0.
TimesLike(a) == [j \in DOMAIN a |-> Rat(j * HopLength, SampleRate)]

\* detect_vocal_pitch returns (times_list, pitch_list, confidence_list).
Return ==
    /\ pc = "done"
    /\ caller = "cli"
    /\ result' = Some([times |-> ToList(TimesLike(f0)),
                       pitches |-> ToList(processed_pitch),
                       confidences |-> ToList(confidence)])
    /\ pc' = "returned"
    /\ UNCHANGED <<caller, resmoothed, file, args, saved, gui, signals, inputs, params,
                   energy, locals>>

\* save_results(times, pitches, confidences, output_json)
SaveResults ==
    /\ pc = "returned"
    /\ caller = "cli"
    /\ saved' = Append(saved, [times |-> ValueOf(result).times,
                               pitches |-> ValueOf(result).pitches,
                               confidences |-> ValueOf(result).confidences])
    /\ pc' = "exit"
    /\ UNCHANGED <<caller, resmoothed, file, args, result, gui, signals, inputs, params,
                   energy, locals>>

\* update_settings: an even filter size is incremented by one.
EvenToOdd(size) == IF size % 2 = 0 THEN size + 1 ELSE size

\* The filter slider is moved; valueChanged runs update_settings.
MoveFilterSlider ==
    /\ caller = "gui"
    /\ \E v \in SliderStops :
          /\ v # filter_slider
          /\ filter_slider' = v
          /\ gui_median_filter_size' = EvenToOdd(v)
    /\ UNCHANGED <<caller, resmoothed, file, args, result, saved, open_button,
                   processing_thread, in_flight, loaded, loads, history, signals,
                   player, display, inputs, params, energy, locals, pc>>

\* Variant: the Open button stays enabled while a file is processed.
OpenButtonLeftEnabled == TRUE

\* open_file: open_button.setEnabled(False)
OpenButtonWhileProcessing == FALSE

\* open_file: the Open button is clicked and a file is chosen; the settings
\* are read again, the buttons are disabled and a worker thread is started
\* with a copy of the settings.  Files are opened while playback is paused.
OpenFile ==
    /\ caller = "gui"
    /\ open_button
    /\ ~is_playing
    /\ loads < MaxLoads
    /\ \E f \in GuiFiles : file' = f
    /\ gui_median_filter_size' = EvenToOdd(filter_slider)
    /\ open_button' = OpenButtonWhileProcessing
    /\ processing_thread' = Some("VocalProcessingThread")
    /\ in_flight' = in_flight + 1
    /\ loads' = loads + 1
    /\ energy_threshold' = DefaultEnergyThreshold
    /\ median_filter_size' = EvenToOdd(filter_slider)
    /\ continuity_tolerance' = DefaultContinuityTolerance
    /\ octave_cost' = DefaultOctaveCost
    /\ pc' = "load"
    /\ signals' = << >>
    /\ play_button' = FALSE
    /\ UNCHANGED <<caller, resmoothed, args, result, saved, filter_slider, loaded,
                   history, is_playing, current_frame, audio_position, audio_stream,
                   timer, display, inputs, energy, locals>>

\* run: finished_signal.emit(audio_data, pitch_list, confidence_list, sample_rate)
EmitFinished ==
    /\ pc = "done"
    /\ caller = "gui"
    /\ result' = Some([audio_data |-> Some(file),
                       pitch_data |-> Some(ToList(processed_pitch)),
                       confidence_data |-> Some(ToList(confidence)),
                       sample_rate |-> SampleRate])
    /\ pc' = "emitted"
    /\ Emit(<<ProgressSignal(90), ProgressSignal(100), FinishedSignal(SampleRate)>>)
    /\ UNCHANGED <<caller, resmoothed, file, args, saved, gui, inputs, params,
                   energy, locals>>

\* Variant: whatever the thread hands over is taken for a result.
SucceededAlways(payload) == TRUE

\* if audio_data is not None
Succeeded(payload) == payload.audio_data # None

\* processing_finished: the Open button is enabled again; a result is stored,
\* the Play and Rewind buttons are enabled, the position and the display are
\* reset; a failure changes none of these; the thread is dropped.
ProcessingFinished ==
    /\ pc = "emitted"
    /\ caller = "gui"
    /\ open_button' = TRUE
    /\ loaded' = IF Succeeded(ValueOf(result)) THEN result ELSE loaded
    /\ IF Succeeded(ValueOf(result))
       THEN /\ play_button' = TRUE
            /\ current_frame' = 0
            /\ ShowDisplay(AddPitchTimes(Display, HistorySize, 0, Zero))
       ELSE UNCHANGED <<play_button, current_frame, display>>
    /\ processing_thread' = None
    /\ in_flight' = in_flight - 1
    /\ history' = Append(history, [file |-> file,
                                   median_filter_size |-> median_filter_size,
                                   payload |-> ValueOf(result)])
    /\ pc' = "idle"
    /\ UNCHANGED <<caller, resmoothed, file, args, result, saved, filter_slider,
                   gui_median_filter_size, loads, signals, is_playing, audio_position,
                   audio_stream, timer, inputs, params, energy, locals>>

----------------------------------------------------------------------------
(* Playback of the loaded file *)

\* self.pitch_data, self.confidence_data and len(self.audio_data) of the file
\* on display; a recording of n frames is taken to have (n - 1) hops of audio.
PitchData == ValueOf(ValueOf(loaded).pitch_data)
ConfidenceData == ValueOf(ValueOf(loaded).confidence_data)
AudioSamples == (NFrames(ValueOf(ValueOf(loaded).audio_data).frames) - 1) * HopLength

\* What is left unchanged by every step of the playback.
run == <<caller, resmoothed, file, args, result, saved, open_button, processing_thread,
         in_flight, filter_slider, gui_median_filter_size, loaded, loads, history,
         signals, inputs, params, energy, locals, pc>>

\* stop_audio(); timer.stop(); is_playing = False
StopPlayback ==
    /\ audio_stream' = FALSE
    /\ timer' = FALSE
    /\ is_playing' = FALSE

\* toggle_playback: the Play button is clicked.  start_audio sets the position
\* from current_frame and opens the output stream, which the device may
\* refuse; the timer is started only over an active stream.
TogglePlayback ==
    /\ caller = "gui"
    /\ play_button
    /\ IF is_playing
       THEN /\ StopPlayback
            /\ UNCHANGED audio_position
       ELSE \E started \in BOOLEAN :
                /\ audio_position' = current_frame * HopLength
                /\ audio_stream' = started
                /\ timer' = IF started THEN TRUE ELSE timer
                /\ is_playing' = IF started THEN TRUE ELSE is_playing
    /\ UNCHANGED <<run, play_button, current_frame, display>>

\* audio_callback: the stream asks for the next block; the position advances
\* by the block unless no data is left (the callback returns before that).
AudioCallback ==
    /\ caller = "gui"
    /\ audio_stream
    /\ ~(/\ audio_position + AudioBufferSize > AudioSamples
         /\ AudioSamples - audio_position <= 0)
    /\ audio_position' = audio_position + AudioBufferSize
    /\ UNCHANGED <<run, play_button, is_playing, current_frame, audio_stream, timer,
                   display>>

\* min(self.audio_position // self.hop_length, len(self.pitch_data) - 1)
FrameOfPosition ==
    IF audio_position \div HopLength < Len(PitchData) - 1
    THEN audio_position \div HopLength
    ELSE Len(PitchData) - 1

\* update_playback: a tick of the timer.
UpdatePlayback ==
    /\ caller = "gui"
    /\ timer
    /\ loaded # None
    /\ LET frame == IF audio_stream THEN FrameOfPosition ELSE current_frame
       IN  IF frame >= Len(PitchData)
           THEN /\ StopPlayback
                /\ current_frame' = 0
                /\ UNCHANGED display
           ELSE /\ ShowDisplay(AddPitch(Display, PitchData[frame + 1],
                                        ConfidenceData[frame + 1]))
                /\ current_frame' = IF audio_stream THEN frame ELSE frame + 1
                /\ UNCHANGED <<audio_stream, timer, is_playing>>
    /\ UNCHANGED <<run, play_button, audio_position>>

\* check_audio_device: the default output device has changed during
\* playback; the stream is closed and start_audio opens one on the new device,
\* which may fail and leave no stream while the timer runs on.
CheckAudioDevice ==
    /\ caller = "gui"
    /\ is_playing
    /\ \E started \in BOOLEAN : audio_stream' = started
    /\ audio_position' = current_frame * HopLength
    /\ UNCHANGED <<run, play_button, is_playing, current_frame, timer, display>>

\* rewind: the Rewind button is clicked.
Rewind ==
    /\ caller = "gui"
    /\ play_button
    /\ IF is_playing THEN StopPlayback ELSE UNCHANGED <<audio_stream, timer, is_playing>>
    /\ current_frame' = 0
    /\ audio_position' = 0
    /\ ShowDisplay(AddPitchTimes(Display, HistorySize, 0, Zero))
    /\ UNCHANGED <<run, play_button>>

NextApp ==
    \/ Main
    \/ LoadAudio
    \/ Next
    \/ Return
    \/ SaveResults
    \/ MoveFilterSlider
    \/ OpenFile
    \/ EmitFinished
    \/ ProcessingFinished

\* The command line and the window, each around the pipeline.
SpecApp == InitApp /\ [][NextApp]_vars

\* The window and its worker thread.
NextWindow ==
    \/ OpenFile
    \/ LoadAudio
    \/ Next
    \/ EmitFinished
    \/ ProcessingFinished

\* The window, with a worker thread that runs on until it has handed over its
\* result.
SpecWindowFair ==
    InitGui /\ [][NextWindow]_vars /\ WF_vars(LoadAudio \/ Next \/ EmitFinished)

\* Files opened in one session in which the loaded file is also played.
MaxPlayerLoads == 2

NextPlayer ==
    \/ (loads < MaxPlayerLoads /\ OpenFile)
    \/ LoadAudio
    \/ Next
    \/ EmitFinished
    \/ ProcessingFinished
    \/ TogglePlayback
    \/ AudioCallback
    \/ UpdatePlayback
    \/ CheckAudioDevice
    \/ Rewind

\* The window: files are opened and played.
SpecPlayer == InitGui /\ [][NextPlayer]_vars

---------------------------------------------------------------------------
(* Stages of a run, and the gate restated on integers *)

\* The confidence array has been filled.
Synthesised == pc \notin {"energy", "confidence"}

\* Gating is the last stage that has run.
JustGated == pc \in {"continuity", "segments"} /\ i = 1

\* Gating has run and smoothing has not started.
BeforeSmoothing == pc \in {"continuity", "segments"}

\* confidence[j] > energy_threshold
AboveThreshold(j) ==
    energy_threshold.n * confidence[j].d < confidence[j].n * energy_threshold.d

---------------------------------------------------------------------------
(* C1..C3: confidence synthesis and gating *)

\* C1: once the confidence array is filled, every confidence[j] equals
\* voiced_probs[j] * (0.5 + 0.5 * energy[j]) if voiced_flag[j] and f0[j] > 0,
\* and 0 otherwise: a function of frame j's own inputs alone.
C1_ConfidenceSynthesis ==
    Synthesised =>
        \A j \in DOMAIN f0 :
            IF voiced_flag[j] /\ f0[j] > 0
            THEN confidence[j].n * (2 * voiced_probs[j].d * energy[j].d)
                     = confidence[j].d * (voiced_probs[j].n * (energy[j].d + energy[j].n))
            ELSE confidence[j].n = 0

\* Two voiced frames of different energy get different non-zero confidences
\* from the same voicing probability, and a voiced frame without a positive
\* pitch gets 0.
C1_Witness ==
    /\ Synthesised
    /\ \E a, b \in DOMAIN f0 :
        /\ voiced_flag[a] /\ f0[a] > 0 /\ voiced_flag[b] /\ f0[b] <= 0
        /\ voiced_probs[a] = voiced_probs[b]
        /\ energy[a] # energy[b]
        /\ confidence[a].n > 0 /\ confidence[b].n = 0

\* C2: every confidence value lies in [0, 1], in every state of every run.
C2_ConfidenceInUnitInterval ==
    \A j \in DOMAIN confidence :
        /\ 0 <= confidence[j].n
        /\ confidence[j].n <= confidence[j].d

\* A run whose energies were normalised by a maximum other than 1, with one
\* confidence at the upper end of the interval and one strictly inside it.
C2_Witness ==
    /\ Synthesised
    /\ \E a, b \in DOMAIN f0 :
        /\ confidence[a] = One
        /\ energy[b] = Half
        /\ 0 < confidence[b].n /\ confidence[b].n < confidence[b].d

---------------------------------------------------------------------------
(* C4..C10: the octave-jump corrector *)

\* The value gating leaves in frame j.
GatedPitch(j) == IF AboveThreshold(j) /\ f0[j] > 0 THEN f0[j] ELSE 0

\* Iteration j of the corrector has run.
Visited(j) == BeforeSmoothing /\ j >= 1 /\ j < i

\* The corrector has visited every frame.
Corrected == pc = "segments"

\* |log2(a / b)| <= continuity_tolerance
WithinTolerance(a, b) ==
    Abs(a - b) * continuity_tolerance.d <= continuity_tolerance.n * StepsPerOctave

\* | |log2(a / b)| - 1 | < 0.1
NearOctave(a, b) == Abs(Abs(a - b) - StepsPerOctave) * 10 < StepsPerOctave

\* confidence[j] < confidence[j-1] * (1 + octave_cost)
Eligible(j) ==
    confidence[j].n * confidence[j - 1].d * octave_cost.d
        < confidence[j - 1].n * (octave_cost.d + octave_cost.n) * confidence[j].d

\* C4: between gating and smoothing every frame with a non-zero pitch has
\* confidence > energy_threshold, and no corrector step turns a zero frame
\* into a non-zero one.
C4_NonZeroOnlyAboveThreshold ==
    /\ [](BeforeSmoothing =>
            \A j \in DOMAIN processed_pitch :
                processed_pitch[j] # 0 => AboveThreshold(j))
    /\ [][pc = "continuity" =>
            \A j \in DOMAIN processed_pitch :
                processed_pitch[j] = 0 => processed_pitch'[j] = 0]_vars

\* The corrector has finished, has changed a frame, and a voiced frame with a
\* positive raw pitch that the threshold gated out, right after a frame that
\* carries a pitch, is still 0.
C4_Witness ==
    /\ Corrected
    /\ \E a, b \in DOMAIN processed_pitch :
        /\ processed_pitch[a] # GatedPitch(a)
        /\ b >= 1 /\ processed_pitch[b - 1] > 0
        /\ voiced_flag[b] /\ f0[b] > 0 /\ ~AboveThreshold(b)
        /\ processed_pitch[b] = 0

\* C5: a corrector step whose frame i or frame i-1 is 0 changes nothing; so
\* frame 0 and every frame right after a zero frame keep their gated value.
C5_SilenceBoundary ==
    /\ [][(pc = "continuity" /\ (processed_pitch[i] = 0 \/ processed_pitch[i - 1] = 0))
            => processed_pitch' = processed_pitch]_vars
    /\ [](BeforeSmoothing =>
            /\ processed_pitch[0] = GatedPitch(0)
            /\ \A j \in DOMAIN processed_pitch \ {0} :
                GatedPitch(j - 1) = 0 => processed_pitch[j] = GatedPitch(j))

\* A visited frame kept its pitch although the frame before it, gated to 0,
\* has a raw pitch an octave away and a confidence that would have allowed
\* the correction.
C5_Witness ==
    \E j \in DOMAIN processed_pitch :
        /\ Visited(j)
        /\ processed_pitch[j - 1] = 0 /\ f0[j - 1] > 0
        /\ processed_pitch[j] > 0 /\ processed_pitch[j] = GatedPitch(j)
        /\ NearOctave(processed_pitch[j], f0[j - 1])
        /\ ~WithinTolerance(processed_pitch[j], f0[j - 1])
        /\ Eligible(j)

\* C6: a step between two voiced frames whose octave difference is at most
\* continuity_tolerance leaves frame i unchanged; with a tolerance of 1.1 or
\* more no step changes anything.
C6_WithinTolerance ==
    [][pc = "continuity" =>
        /\ (/\ processed_pitch[i] > 0 /\ processed_pitch[i - 1] > 0
            /\ WithinTolerance(processed_pitch[i], processed_pitch[i - 1]))
               => processed_pitch'[i] = processed_pitch[i]
        /\ 11 * continuity_tolerance.d <= 10 * continuity_tolerance.n
               => processed_pitch' = processed_pitch]_vars

\* Under a tolerance of 1.1 a visited frame is still exactly one octave from
\* the frame before it, with a confidence that would have allowed correction.
C6_Witness ==
    \E j \in DOMAIN processed_pitch :
        /\ Visited(j)
        /\ 11 * continuity_tolerance.d <= 10 * continuity_tolerance.n
        /\ processed_pitch[j - 1] > 0
        /\ Abs(processed_pitch[j] - processed_pitch[j - 1]) = StepsPerOctave
        /\ Eligible(j)

\* C7: at a step between two voiced frames with an octave difference above
\* the tolerance and within 0.1 of 1.0, frame i changes if and only if
\* confidence[i] < confidence[i-1] * (1 + octave_cost); it is then halved if
\* it was the higher pitch and doubled otherwise, and ends less than 0.1
\* octaves from frame i-1.
C7_CorrectionRule ==
    [][(/\ pc = "continuity"
        /\ processed_pitch[i] > 0 /\ processed_pitch[i - 1] > 0
        /\ ~WithinTolerance(processed_pitch[i], processed_pitch[i - 1])
        /\ NearOctave(processed_pitch[i], processed_pitch[i - 1]))
       => IF Eligible(i)
          THEN /\ processed_pitch'[i] # processed_pitch[i]
               /\ processed_pitch'[i] =
                     IF processed_pitch[i] > processed_pitch[i - 1]
                     THEN processed_pitch[i] - StepsPerOctave
                     ELSE processed_pitch[i] + StepsPerOctave
               /\ Abs(processed_pitch'[i] - processed_pitch[i - 1]) * 10 < StepsPerOctave
          ELSE processed_pitch'[i] = processed_pitch[i]]_vars

\* One frame, just under an octave above its predecessor, was halved to just
\* under the predecessor's pitch; the next frame is an octave-sized step away
\* and kept its pitch because its confidence is too high.
C7_Witness ==
    /\ Corrected
    /\ \E a \in DOMAIN processed_pitch :
        /\ a >= 1 /\ a + 1 \in DOMAIN processed_pitch
        /\ GatedPitch(a) = NearA880
        /\ processed_pitch[a - 1] = A440
        /\ processed_pitch[a] = NearA880 - StepsPerOctave
        /\ processed_pitch[a + 1] > 0
        /\ processed_pitch[a + 1] = GatedPitch(a + 1)
        /\ NearOctave(processed_pitch[a + 1], processed_pitch[a])
        /\ ~WithinTolerance(processed_pitch[a + 1], processed_pitch[a])
        /\ ~Eligible(a + 1)

\* C8: at a step between two voiced frames with an octave difference above
\* the tolerance and not within 0.1 of 1.0, frame i is left unchanged.
C8_NonOctaveJump ==
    [][(/\ pc = "continuity"
        /\ processed_pitch[i] > 0 /\ processed_pitch[i - 1] > 0
        /\ ~WithinTolerance(processed_pitch[i], processed_pitch[i - 1])
        /\ ~NearOctave(processed_pitch[i], processed_pitch[i - 1]))
       => processed_pitch'[i] = processed_pitch[i]]_vars

\* A visited frame is still exactly two octaves above the frame before it,
\* with a confidence that would have allowed a correction.
C8_Witness ==
    \E j \in DOMAIN processed_pitch :
        /\ Visited(j)
        /\ processed_pitch[j - 1] > 0
        /\ processed_pitch[j] - processed_pitch[j - 1] = 2 * StepsPerOctave
        /\ ~WithinTolerance(processed_pitch[j], processed_pitch[j - 1])
        /\ Eligible(j)

\* Gating left [p, 2p, 2p] and both later frames may be corrected.
CascadeInput ==
    /\ NFrames(f0) = 3
    /\ GatedPitch(0) > 0
    /\ GatedPitch(1) = GatedPitch(0) + StepsPerOctave
    /\ GatedPitch(2) = GatedPitch(1)
    /\ ~WithinTolerance(GatedPitch(1), GatedPitch(0))
    /\ Eligible(1) /\ Eligible(2)

\* C9: the corrector starts at i = 1, each step writes at most frame i and
\* moves to i + 1, and it ends at i = N; frame i is compared with the
\* corrected frame i-1, so [p, 2p, 2p] becomes [p, p, p].
C9_ForwardOrder ==
    /\ [][pc = "threshold" => i' = 1]_vars
    /\ [][pc = "continuity" =>
            /\ i' = i + 1
            /\ \A j \in DOMAIN processed_pitch \ {i} :
                    processed_pitch'[j] = processed_pitch[j]]_vars
    /\ [](pc = "continuity" => 1 <= i /\ i < NFrames(f0))
    /\ [](Corrected => i = IF NFrames(f0) > 1 THEN NFrames(f0) ELSE 1)
    /\ [](Corrected /\ CascadeInput =>
            \A j \in DOMAIN processed_pitch : processed_pitch[j] = GatedPitch(0))

\* The corrector has finished on [p, 2p, 2p] and left [p, p, p].
C9_Witness ==
    /\ Corrected
    /\ CascadeInput
    /\ i = 3
    /\ processed_pitch[1] = GatedPitch(0)
    /\ processed_pitch[2] = GatedPitch(0)

\* Gating left the voiced frames [p, q, p, p], the default tolerance and
\* octave cost apply, and frame 1 is less confident than frame 0.
RepairInput(q) ==
    /\ NFrames(f0) = 4
    /\ continuity_tolerance = DefaultContinuityTolerance
    /\ octave_cost = DefaultOctaveCost
    /\ GatedPitch(0) > 0
    /\ GatedPitch(1) = q
    /\ GatedPitch(2) = GatedPitch(0) /\ GatedPitch(3) = GatedPitch(0)
    /\ confidence[1].n * confidence[0].d < confidence[0].n * confidence[1].d

\* C10: with the default tolerance and octave cost, the corrector turns the
\* voiced frames [p, 2p, p, p] and [p, p/2, p, p], frame 1 less confident
\* than frame 0, into [p, p, p, p].
C10_IsolatedOctaveRepair ==
    (/\ Corrected
     /\ \/ RepairInput(GatedPitch(0) + StepsPerOctave)
        \/ RepairInput(GatedPitch(0) - StepsPerOctave))
    => \A j \in DOMAIN processed_pitch : processed_pitch[j] = GatedPitch(0)

\* The corrector has finished on [p, p/2, p, p] and left [p, p, p, p].
C10_Witness ==
    /\ Corrected
    /\ RepairInput(GatedPitch(0) - StepsPerOctave)
    /\ processed_pitch = [j \in 0..3 |-> GatedPitch(0)]
    /\ f0[1] # processed_pitch[1]

---------------------------------------------------------------------------
(* C11..C14: the segment-aware smoother *)

\* The segments have been found and no filtered segment has yet been copied
\* back: processed_pitch is the corrector's output.
SegmentsFound == pc = "medfilt"

\* [a, b) is a maximal run of frames with pitch > 0 in pp.
IsMaximalRun(pp, a, b) ==
    /\ a < b
    /\ \A j \in a..(b - 1) : pp[j] > 0
    /\ a = 0 \/ pp[a - 1] <= 0
    /\ b = NFrames(pp) \/ pp[b] <= 0

\* C11: the segment list holds exactly the maximal contiguous runs [start, end)
\* of frames with pitch > 0, each once and in ascending order; an array
\* without a voiced frame has no segment.
C11_SegmentDetection ==
    /\ SegmentsFound =>
          /\ \A a, b \in 0..NFrames(processed_pitch) :
                 IsMaximalRun(processed_pitch, a, b)
                     <=> \E x \in 1..Len(segments) : segments[x] = <<a, b>>
          /\ \A x \in 1..(Len(segments) - 1) : segments[x][2] < segments[x + 1][1]
    /\ (pc = "done" /\ \A j \in DOMAIN processed_pitch : processed_pitch[j] <= 0)
          => segments = << >>

\* The voicing of [0, 200, 210, 0, 0, 300, 310, 320]: segments (1,3) and (5,8),
\* the second one reaching the last frame.
C11_Witness ==
    /\ SegmentsFound
    /\ NFrames(processed_pitch) = 8
    /\ \A j \in 0..7 : processed_pitch[j] > 0 <=> j \in {1, 2, 5, 6, 7}
    /\ segments = << <<1, 3>>, <<5, 8>> >>

\* The segment the smoother is about to handle.
CurrentStart == segments[k][1]
CurrentEnd == segments[k][2]

\* The window of median_filter_size frames centred on frame j of the segment
\* [start, end) of pp, zeros standing in for frames beyond the segment, in
\* ascending order.
SortedWindow(pp, start, end, j) ==
    SortSeq([x \in 1..median_filter_size |->
                LET y == j - (median_filter_size \div 2) + (x - 1)
                IN  IF start <= y /\ y < end THEN pp[y] ELSE 0],
            LAMBDA a, b : a < b)

\* The middle value of that window.
WindowMedian(pp, start, end, j) ==
    SortedWindow(pp, start, end, j)[(median_filter_size \div 2) + 1]

\* C12: the smoother filters a segment only if end - start > median_filter_size;
\* a segment with end - start <= median_filter_size, equality included, is
\* passed through with every value unchanged.
C12_MedianFilterSkip ==
    [][SegmentsFound =>
          \A j \in CurrentStart..(CurrentEnd - 1) :
              smoothed_pitch'[j] =
                  IF CurrentEnd - CurrentStart > median_filter_size
                  THEN WindowMedian(processed_pitch, CurrentStart, CurrentEnd, j)
                  ELSE processed_pitch[j]]_vars

\* A finished run with two segments: the first exactly as long as the filter
\* and returned as it was although its median differs from it, the second
\* longer than the filter and changed by it.
C12_Witness ==
    /\ pc = "done"
    /\ Len(segments) = 2
    /\ segments[1][2] - segments[1][1] = median_filter_size
    /\ \A j \in segments[1][1]..(segments[1][2] - 1) : processed_pitch[j] = f0[j]
    /\ \E j \in segments[1][1]..(segments[1][2] - 1) :
           WindowMedian(f0, segments[1][1], segments[1][2], j) # f0[j]
    /\ segments[2][2] - segments[2][1] > median_filter_size
    /\ \E j \in segments[2][1]..(segments[2][2] - 1) : processed_pitch[j] # f0[j]

\* Frame j lies in a segment that is longer than the filter.
InFilteredSegment(j) ==
    \E x \in 1..Len(segments) :
        /\ segments[x][1] <= j /\ j < segments[x][2]
        /\ segments[x][2] - segments[x][1] > median_filter_size

\* The segment frame j lies in.
SegmentOf(j) ==
    CHOOSE x \in 1..Len(segments) : segments[x][1] <= j /\ j < segments[x][2]

\* C13: handling a segment writes only frames inside it, and when the
\* smoother finishes every frame of a filtered segment holds the median of the
\* corrector's values inside that same segment, while every frame outside the
\* filtered segments (the zero frames among them) holds the corrector's value.
C13_SegmentIndependence ==
    [][SegmentsFound =>
          /\ \A j \in DOMAIN smoothed_pitch :
                 ~(CurrentStart <= j /\ j < CurrentEnd)
                     => smoothed_pitch'[j] = smoothed_pitch[j]
          /\ pc' = "done" =>
                 \A j \in DOMAIN processed_pitch :
                     processed_pitch'[j] =
                         IF InFilteredSegment(j)
                         THEN WindowMedian(processed_pitch, segments[SegmentOf(j)][1],
                                           segments[SegmentOf(j)][2], j)
                         ELSE processed_pitch[j]]_vars

\* A finished run with two filtered segments, both changed by the filter, and
\* a zero frame between them that stayed zero.
C13_Witness ==
    /\ pc = "done"
    /\ Len(segments) = 2
    /\ \A x \in 1..2 :
           /\ segments[x][2] - segments[x][1] > median_filter_size
           /\ \E j \in segments[x][1]..(segments[x][2] - 1) : processed_pitch[j] # f0[j]
    /\ \E j \in DOMAIN processed_pitch :
           /\ segments[1][2] <= j /\ j < segments[2][1]
           /\ processed_pitch[j] = 0

\* Every frame of the segment [start, end) of pp holds the value v.
ConstantSegment(pp, start, end, v) == \A j \in start..(end - 1) : pp[j] = v

\* C14: whenever the smoother handles a segment whose frames all hold one
\* value v > 0, it leaves every frame of the segment at v, the zero-padded
\* edge frames included, whatever the odd filter size and the segment's
\* length; so it does again when it is applied to its own output.
C14_ConstantSegmentUnchanged ==
    [][(SegmentsFound /\ median_filter_size % 2 = 1) =>
          \A v \in {processed_pitch[CurrentStart]} :
              (v > 0 /\ ConstantSegment(processed_pitch, CurrentStart, CurrentEnd, v))
                  => ConstantSegment(smoothed_pitch', CurrentStart, CurrentEnd, v)]_vars

\* The second application has finished on a buffer with a constant segment
\* longer than a filter of more than one frame, whose edge windows therefore
\* reached into the zero padding.
C14_Witness ==
    /\ caller = "smoother"
    /\ pc = "done"
    /\ resmoothed = 1
    /\ median_filter_size > 1
    /\ \E x \in 1..Len(segments) :
           /\ segments[x][2] - segments[x][1] > median_filter_size
           /\ ConstantSegment(processed_pitch, segments[x][1], segments[x][2], A440)

---------------------------------------------------------------------------
(* C15..C17: the callers of the pipeline *)

\* C15: on every path that runs the pipeline, the window's and the command
\* line's, the filter size with which the median filter is applied to a
\* segment is odd: an even size has been incremented by one before.
C15_EvenSizeCoerced ==
    (SegmentsFound /\ CurrentEnd - CurrentStart > median_filter_size)
        => median_filter_size % 2 = 1

\* The stages of a run at which its arrays exist.
ArraysExist ==
    pc \in {"confidence", "threshold", "continuity", "segments", "medfilt", "done",
            "returned", "exit"}

\* C16: in a run over N frames no stage changes the number of frames, the
\* returned time, pitch and confidence lists all have length N, and the
\* saved object has exactly the keys times, pitches and confidences, holding
\* lists of that one length.
C16_OutputShape ==
    /\ ArraysExist =>
          /\ DOMAIN confidence = DOMAIN f0
          /\ DOMAIN processed_pitch = DOMAIN f0
          /\ pc = "medfilt" => DOMAIN smoothed_pitch = DOMAIN f0
    /\ (caller = "cli" /\ result # None) =>
          /\ Len(ValueOf(result).times) = NFrames(file.frames)
          /\ Len(ValueOf(result).pitches) = NFrames(file.frames)
          /\ Len(ValueOf(result).confidences) = NFrames(file.frames)
    /\ \A x \in 1..Len(saved) :
          /\ DOMAIN saved[x] = {"times", "pitches", "confidences"}
          /\ Len(saved[x].times) = NFrames(file.frames)
          /\ Len(saved[x].pitches) = Len(saved[x].times)
          /\ Len(saved[x].confidences) = Len(saved[x].times)
    /\ (caller = "gui" /\ pc = "emitted" /\ ~file.broken) =>
          /\ Len(ValueOf(ValueOf(result).pitch_data)) = NFrames(file.frames)
          /\ Len(ValueOf(ValueOf(result).confidence_data)) = NFrames(file.frames)

\* The command line has saved the result of a six-frame recording in which
\* the corrector's output was found to have two segments and the filter
\* changed a pitch.
C16_Witness ==
    /\ caller = "cli"
    /\ pc = "exit"
    /\ Len(saved) = 1
    /\ Len(saved[1].pitches) = 6
    /\ Len(segments) = 2
    /\ \E x \in 1..6 : saved[1].pitches[x] # f0[x - 1] /\ saved[1].pitches[x] > 0

\* A payload of the worker thread with every part present, and one with none.
FullPayload(r) ==
    /\ r.audio_data # None
    /\ r.pitch_data # None
    /\ r.confidence_data # None
    /\ Len(ValueOf(r.pitch_data)) = Len(ValueOf(r.confidence_data))

EmptyPayload(r) ==
    /\ r.audio_data = None
    /\ r.pitch_data = None
    /\ r.confidence_data = None
    /\ r.sample_rate = 0

\* C17: a run ends in one of two ways.  A file that cannot be decoded makes
\* detect_vocal_pitch raise, with nothing returned and nothing saved, and
\* makes the worker thread hand over (None, None, None, 0); any other run that
\* hands something over hands over complete lists.  No payload is partly
\* filled, and the window never stores one that is.
C17_FailureSurfacing ==
    /\ caller = "cli" =>
          /\ file.broken => (pc \in {"main", "load", "raised"} /\ result = None)
          /\ pc = "raised" => (result = None /\ saved = << >>)
          /\ result # None =>
                 /\ ~file.broken
                 /\ Len(ValueOf(result).pitches) = Len(ValueOf(result).times)
                 /\ Len(ValueOf(result).confidences) = Len(ValueOf(result).times)
    /\ (caller = "gui" /\ pc = "emitted") =>
          /\ FullPayload(ValueOf(result)) \/ EmptyPayload(ValueOf(result))
          /\ EmptyPayload(ValueOf(result)) <=> file.broken
    /\ loaded # None => FullPayload(ValueOf(loaded))

\* The worker thread has handed over the all-None payload for a file that
\* cannot be decoded, after an earlier file was loaded in full.
C17_Witness ==
    /\ caller = "gui"
    /\ pc = "emitted"
    /\ file.broken
    /\ EmptyPayload(ValueOf(result))
    /\ loaded # None

---------------------------------------------------------------------------
(* C18: silence *)

\* Every frame has RMS energy 0: the waveform is all-zero.
Silent == \A j \in DOMAIN energy : energy[j].n = 0

\* The estimator reports no frame as voiced.
AllUnvoiced == \A j \in DOMAIN voiced_flag : ~voiced_flag[j]

\* Every pitch and every confidence of the run is 0.
AllZero ==
    /\ \A j \in DOMAIN confidence : confidence[j].n = 0
    /\ \A j \in DOMAIN processed_pitch : processed_pitch[j] = 0

\* C18 as stated: a run on an all-zero waveform ends with pitch 0 and
\* confidence 0 in every frame.
C18_SilentAsStated == (Silent /\ pc = "done") => AllZero

\* C18: on an all-zero waveform the energy is left as it is, all zero, and the
\* run never fails; if moreover the estimator reports no frame as voiced and
\* the threshold is not negative, every confidence is 0 once synthesised,
\* every pitch is 0 from gating on, and so they are when the run is done.
C18_SilentInput ==
    /\ [][(pc = "energy" /\ Silent) => (energy' = energy /\ pc' = "confidence")]_vars
    /\ [](Silent => pc # "raised")
    /\ []((Silent /\ AllUnvoiced /\ energy_threshold.n >= 0) =>
             /\ Synthesised => \A j \in DOMAIN f0 : confidence[j].n = 0
             /\ pc \in {"continuity", "segments", "medfilt", "done"} => AllZero)

\* A finished run on two silent frames, both reported unvoiced with a
\* best-guess pitch, under a threshold of exactly 0.
C18_Witness ==
    /\ pc = "done"
    /\ NFrames(f0) = 2
    /\ Silent /\ AllUnvoiced
    /\ energy_threshold.n = 0
    /\ \A j \in DOMAIN f0 : f0[j] > 0
    /\ AllZero

---------------------------------------------------------------------------
(* C19, C20: runs one after another in the window *)

\* C19: two finished loads of the same file with the same parameters handed
\* over the same payload, whatever was loaded between them and whatever an
\* earlier run left in the arrays.
C19_Deterministic ==
    \A a, b \in 1..Len(history) :
        (/\ history[a].file = history[b].file
         /\ history[a].median_filter_size = history[b].median_filter_size)
            => history[a].payload = history[b].payload

\* One recording was loaded, then a different one of the same length, then
\* the first again with the same filter size, all three in full, and the
\* first recording has a segment the filter passes over.
C19_Witness ==
    /\ Len(history) = 3
    /\ history[1].file = history[3].file
    /\ history[1].median_filter_size = history[3].median_filter_size
    /\ history[2].file # history[1].file
    /\ \A x \in 1..3 : FullPayload(history[x].payload)
    /\ Len(ValueOf(history[2].payload.pitch_data)) = Len(ValueOf(history[1].payload.pitch_data))
    /\ ValueOf(history[2].payload.pitch_data) # ValueOf(history[1].payload.pitch_data)
    /\ history[1].median_filter_size >= Len(ValueOf(history[1].payload.pitch_data))

\* A worker thread is at work on the arrays.
RunInProgress ==
    pc \in {"load", "energy", "confidence", "threshold", "continuity", "segments",
            "medfilt", "done", "emitted"}

\* C20: from the moment open_file starts a worker thread until
\* processing_finished has handled its result the Open button is disabled,
\* so no second thread is started: at most one run is under way, and the
\* arrays are worked on by that one thread only.
C20_OneRunInFlight ==
    caller = "gui" =>
        /\ in_flight <= 1
        /\ in_flight = 1 <=> ~open_button
        /\ in_flight = 1 <=> processing_thread # None
        /\ in_flight = 1 <=> RunInProgress

\* The second file of a session is being smoothed: its thread is the only
\* one, and the Open button is disabled.
C20_Witness ==
    /\ caller = "gui"
    /\ loads = 2
    /\ pc = "medfilt"
    /\ in_flight = 1
    /\ ~open_button

---------------------------------------------------------------------------
(* C21: the order of the stages *)

\* The stage that may follow each stage of a run.
StageOrder ==
    {<<"energy", "confidence">>, <<"confidence", "threshold">>,
     <<"threshold", "continuity">>, <<"threshold", "segments">>,
     <<"continuity", "continuity">>, <<"continuity", "segments">>,
     <<"segments", "medfilt">>, <<"segments", "done">>,
     <<"medfilt", "medfilt">>, <<"medfilt", "done">>}

Follows(a, b) == <<a, b>> \in StageOrder

\* C21: the stages of a run follow one another as confidence synthesis,
\* gating, octave correction of the frames 1..N-1 in ascending order, segment
\* computation, smoothing; the segments are computed when the corrector has
\* visited every frame and no median filter has yet been applied, as the
\* voiced runs of the corrected array.
C21_StageOrdering ==
    /\ [][Follows(pc, pc')]_vars
    /\ [][pc = "continuity" => (i' = i + 1 /\ i < NFrames(f0))]_vars
    /\ [](pc \in {"segments", "medfilt", "done"} => i = NFrames(f0))
    /\ [][(pc = "segments" /\ pc' = "medfilt") =>
              /\ processed_pitch' = processed_pitch
              /\ smoothed_pitch' = processed_pitch
              /\ \A a, b \in 0..NFrames(processed_pitch) :
                     IsMaximalRun(processed_pitch, a, b)
                         <=> \E x \in 1..Len(segments') : segments'[x] = <<a, b>>]_vars

\* The segments of a four-frame run have been computed after the corrector
\* changed a pitch at frame 1 and went on to the last frame.
C21_Witness ==
    /\ pc = "medfilt"
    /\ NFrames(f0) = 4
    /\ i = 4
    /\ processed_pitch[1] # f0[1] /\ processed_pitch[1] > 0
    /\ segments = << <<0, 4>> >>

---------------------------------------------------------------------------
(* C22: the copies of the pipeline in the worker threads *)

\* VocalProcessingThread.run, from the arrays of the estimator to the lists
\* it emits, as one function of the arrays f (pitch), vf (voiced flag), vp
\* (voicing probability), e (normalised energy) and the thread's parameters.

\* for i in range(len(f0)): confidence[i] = ...
ThreadConfidence(f, vf, vp, e) ==
    [j \in DOMAIN f |->
        IF vf[j] /\ f[j] > 0 THEN RMul(vp[j], RAdd(Half, RMul(Half, e[j]))) ELSE Zero]

\* for i in range(len(f0)): processed_pitch[i] = ...
ThreadGate(f, c, thr) ==
    [j \in DOMAIN f |-> IF RLt(thr, c[j]) /\ f[j] > 0 THEN f[j] ELSE 0]

\* for i in range(1, len(processed_pitch)): the loop from iteration j on.
RECURSIVE ThreadCorrect(_, _, _, _, _)
ThreadCorrect(pp, c, tol, cost, j) ==
    IF j >= NFrames(pp)
    THEN pp
    ELSE LET octave_diff == RAbs(Rat(pp[j] - pp[j - 1], StepsPerOctave))
             fixed ==
                 IF pp[j] > 0 /\ pp[j - 1] > 0
                 THEN IF /\ RLt(tol, octave_diff)
                         /\ RLt(RAbs(RSub(octave_diff, One)), Tenth)
                         /\ RLt(c[j], RMul(c[j - 1], RAdd(One, cost)))
                      THEN IF pp[j] > pp[j - 1]
                           THEN pp[j] - StepsPerOctave
                           ELSE pp[j] + StepsPerOctave
                      ELSE pp[j]
                 ELSE pp[j]
         IN  ThreadCorrect([pp EXCEPT ![j] = fixed], c, tol, cost, j + 1)

\* The segments and the median filter over each, frame by frame: the run of
\* voiced frames [a, b) around frame j, and the middle of j's sorted window.
ThreadSmooth(pp, mfs) ==
    [j \in DOMAIN pp |->
        IF pp[j] > 0
        THEN LET a == CHOOSE x \in 0..j :
                          /\ \A y \in x..j : pp[y] > 0
                          /\ x = 0 \/ pp[x - 1] <= 0
                 b == CHOOSE x \in (j + 1)..NFrames(pp) :
                          /\ \A y \in j..(x - 1) : pp[y] > 0
                          /\ x = NFrames(pp) \/ pp[x] <= 0
                 window == [x \in 1..mfs |->
                               LET y == j - (mfs \div 2) + (x - 1)
                               IN  IF a <= y /\ y < b THEN pp[y] ELSE 0]
             IN  IF b - a > mfs
                 THEN SortSeq(window, LAMBDA u, v : u < v)[(mfs \div 2) + 1]
                 ELSE pp[j]
        ELSE pp[j]]

ThreadRun(f, vf, vp, e, thr, mfs, tol, cost) ==
    LET c == ThreadConfidence(f, vf, vp, e)
        gated == ThreadGate(f, c, thr)
        corrected == ThreadCorrect(gated, c, tol, cost, 1)
    IN  [pitch |-> ThreadSmooth(corrected, mfs), confidence |-> c]

\* The copy in pitch_track.py and the copy in vocal_visualizer.py: the same
\* statements, line for line.
PitchTrackRun(f, vf, vp, e, thr, mfs, tol, cost) ==
    ThreadRun(f, vf, vp, e, thr, mfs, tol, cost)

VisualizerRun(f, vf, vp, e, thr, mfs, tol, cost) ==
    ThreadRun(f, vf, vp, e, thr, mfs, tol, cost)

\* C22: on the same per-frame inputs and the same parameters the pitch and
\* confidence sequences detect_vocal_pitch ends with are those of
\* VocalProcessingThread.run of pitch_track.py and those of
\* VocalProcessingThread.run of vocal_visualizer.py.
C22_CopiesEquivalent ==
    pc = "done" =>
        LET p == PitchTrackRun(f0, voiced_flag, voiced_probs, energy, energy_threshold,
                               median_filter_size, continuity_tolerance, octave_cost)
            v == VisualizerRun(f0, voiced_flag, voiced_probs, energy, energy_threshold,
                               median_filter_size, continuity_tolerance, octave_cost)
        IN  /\ processed_pitch = p.pitch /\ confidence = p.confidence
            /\ processed_pitch = v.pitch /\ confidence = v.confidence

\* A finished run in which the corrector moved a pitch by an octave and the
\* median filter was then applied to a segment that is not constant.
C22_Witness ==
    /\ pc = "done"
    /\ \E j \in DOMAIN f0 : Abs(processed_pitch[j] - f0[j]) = StepsPerOctave
    /\ \E x \in 1..Len(segments) :
           /\ segments[x][2] - segments[x][1] > median_filter_size
           /\ processed_pitch[segments[x][1]] # processed_pitch[segments[x][2] - 1]

----------------------------------------------------------------------------
(* The corrector and the voicing *)

\* The frames that carry a pitch in the buffer pp.
VoicedFrames(pp) == {j \in DOMAIN pp : pp[j] > 0}

\* The frames the threshold gate let through.
GatedIn == {j \in DOMAIN f0 : GatedPitch(j) > 0}

\* C23: the corrector preserves voicing. No corrector step changes which
\* frames have a pitch > 0, so from gating until smoothing the frames with
\* processed_pitch > 0 are exactly the frames > 0 after gating, and the
\* segments found after the correction are the maximal runs of gated-in frames.
C23_CorrectorPreservesVoicing ==
    /\ [][pc = "continuity" =>
            VoicedFrames(processed_pitch') = VoicedFrames(processed_pitch)]_vars
    /\ [](BeforeSmoothing => VoicedFrames(processed_pitch) = GatedIn)
    /\ [](SegmentsFound =>
            \A a, b \in 0..NFrames(f0) :
                (/\ a < b
                 /\ a..(b - 1) \subseteq GatedIn
                 /\ (a = 0 \/ a - 1 \notin GatedIn)
                 /\ (b = NFrames(f0) \/ b \notin GatedIn))
                    <=> \E x \in 1..Len(segments) : segments[x] = <<a, b>>)

\* The segments have been found after a correction that moved a frame by an
\* octave, next to a frame with a raw pitch that the gate had silenced.
C23_Witness ==
    /\ SegmentsFound
    /\ \E a, c \in DOMAIN processed_pitch :
        /\ GatedPitch(a) > 0
        /\ Abs(processed_pitch[a] - GatedPitch(a)) = StepsPerOctave
        /\ f0[c] > 0 /\ processed_pitch[c] = 0
    /\ Len(segments) >= 1

----------------------------------------------------------------------------
(* The smoother and the voicing *)

\* The frames of the segment [start, end) that the window centred on frame j
\* covers.
WindowInSegment(start, end, j) ==
    {m \in start..(end - 1) : Abs(m - j) <= median_filter_size \div 2}

\* C24: for an odd filter size, every frame of a segment longer than the
\* filter is left with one of the values the segment had inside the frame's
\* window, hence with a value > 0, also where the window reaches into the zero
\* padding; the smoother's last step leaves a frame at 0 exactly if it was 0
\* before, and every frame of the final output with a pitch > 0 has a
\* confidence above the threshold.
C24_SmootherPreservesVoicing ==
    /\ [][(/\ SegmentsFound
           /\ median_filter_size % 2 = 1
           /\ CurrentEnd - CurrentStart > median_filter_size) =>
              \A j \in CurrentStart..(CurrentEnd - 1) :
                  /\ smoothed_pitch'[j] > 0
                  /\ \E m \in WindowInSegment(CurrentStart, CurrentEnd, j) :
                         smoothed_pitch'[j] = processed_pitch[m]]_vars
    /\ [][(SegmentsFound /\ pc' = "done") =>
              \A j \in DOMAIN processed_pitch :
                  processed_pitch'[j] = 0 <=> processed_pitch[j] = 0]_vars
    /\ [](pc = "done" =>
              \A j \in DOMAIN processed_pitch :
                  /\ processed_pitch[j] = 0 <=> GatedPitch(j) = 0
                  /\ processed_pitch[j] > 0 => AboveThreshold(j))

\* A finished run with a silent frame, a segment too short to be filtered and
\* a filtered segment whose last frame, its window reaching into the padding,
\* took over the value of the frame before it.
C24_Witness ==
    /\ pc = "done"
    /\ \E c \in DOMAIN processed_pitch : processed_pitch[c] = 0
    /\ \E x \in 1..Len(segments) : segments[x][2] - segments[x][1] < median_filter_size
    /\ \E x \in 1..Len(segments) :
           LET last == segments[x][2] - 1
           IN  /\ segments[x][2] - segments[x][1] > median_filter_size
               /\ processed_pitch[last] # GatedPitch(last)
               /\ processed_pitch[last] = GatedPitch(last - 1)

----------------------------------------------------------------------------
(* What the corrector leaves behind *)

\* Frames j-1 and j of the buffer are voiced and an octave-sized step apart,
\* beyond the tolerance.
OctaveStep(j) ==
    /\ processed_pitch[j] > 0 /\ processed_pitch[j - 1] > 0
    /\ ~WithinTolerance(processed_pitch[j], processed_pitch[j - 1])
    /\ NearOctave(processed_pitch[j], processed_pitch[j - 1])

\* C25: when the forward pass has finished, no frame j >= 1 is an octave-sized
\* step beyond the tolerance from the frame before it with a confidence below
\* confidence[j-1] * (1 + octave_cost): every octave-sized step that is left
\* has a later frame whose confidence was too high to override.
C25_CorrectorPostcondition ==
    Corrected =>
        \A j \in DOMAIN processed_pitch \ {0} : OctaveStep(j) => ~Eligible(j)

\* The forward pass has finished, has moved one frame by an octave, and has
\* left an octave-sized step at another frame, whose confidence was too high.
C25_Witness ==
    /\ Corrected
    /\ \E a, b \in DOMAIN processed_pitch \ {0} :
        /\ GatedPitch(a) > 0
        /\ Abs(processed_pitch[a] - GatedPitch(a)) = StepsPerOctave
        /\ OctaveStep(b) /\ ~Eligible(b)
        /\ processed_pitch[b] = GatedPitch(b)

----------------------------------------------------------------------------
(* Who writes the confidence array *)

\* C26: no step after the synthesizer's (gating, octave correction, segment
\* detection, smoothing) changes the confidence array, so in the returned arrays
\* the confidence of a frame whose pitch was moved by an octave or replaced by
\* a median is still voiced_probs[j] * (0.5 + 0.5 * energy[j]).
C26_ConfidenceWrittenOnce ==
    /\ [][(pc # "energy" /\ pc # "confidence") => confidence' = confidence]_vars
    /\ [](pc = "done" =>
            \A j \in DOMAIN processed_pitch :
                processed_pitch[j] # GatedPitch(j) =>
                    confidence[j].n * (2 * voiced_probs[j].d * energy[j].d)
                        = confidence[j].d * (voiced_probs[j].n * (energy[j].d + energy[j].n)))

\* A finished run returned a frame that the corrector doubled and the median
\* filter then passed over, inside a segment longer than the filter, with the
\* confidence below 1 that the synthesizer gave it.
C26_Witness ==
    /\ pc = "done"
    /\ \E a \in DOMAIN processed_pitch :
        /\ GatedPitch(a) > 0
        /\ processed_pitch[a] = GatedPitch(a) + StepsPerOctave
        /\ InFilteredSegment(a)
        /\ 0 < confidence[a].n /\ confidence[a].n < confidence[a].d

----------------------------------------------------------------------------
(* C27: the signals of the worker thread *)

\* The progress values of a complete run, in the order of the emits.
ProgressValues == <<10, 20, 30, 60, 70, 80, 90, 100>>

\* The x-th signal of the run is finished_signal.
IsFinished(x) == signals[x].signal = "finished_signal"

\* The run has emitted finished_signal.
Finished == signals # << >> /\ IsFinished(Len(signals))

\* C27: in every run of the worker thread the progress values emitted are
\* strictly increasing and a prefix of 10, 20, 30, 60, 70, 80, 90, 100;
\* finished_signal is emitted at most once and nothing follows it; after a
\* success it follows progress 100 and carries the results, after an exception
\* it carries (None, None, None, 0); and every run that is started emits it.
C27_WorkerProtocol ==
    /\ [](caller = "gui" =>
            /\ \A x \in 1..Len(signals) :
                   /\ IsFinished(x) => x = Len(signals)
                   /\ ~IsFinished(x) =>
                          /\ x <= Len(ProgressValues)
                          /\ signals[x].value = ProgressValues[x]
                          /\ x > 1 => signals[x - 1].value < signals[x].value
            /\ Finished <=> pc \in {"emitted", "idle"} /\ loads > 0
            /\ (Finished /\ pc = "emitted") =>
                   IF file.broken
                   THEN /\ EmptyPayload(ValueOf(result))
                        /\ signals[Len(signals)].value = 0
                   ELSE /\ FullPayload(ValueOf(result))
                        /\ Len(signals) = Len(ProgressValues) + 1
                        /\ signals[Len(signals) - 1].value = 100
                        /\ ValueOf(ValueOf(result).pitch_data) = ToList(processed_pitch)
                        /\ signals[Len(signals)].value = ValueOf(result).sample_rate)
    /\ [][(caller = "gui" /\ Finished /\ pc' # "load") => signals' = signals]_vars
    /\ ((caller = "gui" /\ pc = "load") ~> Finished)

\* In one session a run has failed after progress 10 alone, and the run after
\* it has emitted all eight progress values and then finished_signal.
C27_Witness ==
    /\ caller = "gui"
    /\ pc = "emitted"
    /\ Len(signals) = 9
    /\ Len(history) >= 1
    /\ EmptyPayload(history[Len(history)].payload)

----------------------------------------------------------------------------
(* C28..C30: playback and the display *)

\* The playback position, in frames: taken from the audio position while a
\* stream is open, counted by the timer otherwise.
PlaybackFrame == IF audio_stream THEN audio_position \div HopLength ELSE current_frame

\* The position has passed the last frame of the pitch data.
PastEnd == PlaybackFrame >= Len(PitchData)

\* C28: a tick of update_playback during playback, with the position past the
\* last frame of the pitch data, stops the playback (no stream, timer stopped,
\* is_playing false) and sets current_frame to 0, with or without a stream.
C28_PlaybackStopsAtEnd ==
    [][(UpdatePlayback /\ is_playing /\ PastEnd) =>
          (~is_playing' /\ ~timer' /\ ~audio_stream' /\ current_frame' = 0)]_vars

\* C29: processing_finished, handed the failure result, leaves the stored
\* audio, pitch and confidence data, the sample rate and current_frame as they
\* were, enables the Open button and clears processing_thread; whenever the
\* window is idle the button is enabled and no thread is held, so open_file
\* can start a run.
C29_FailedLoadKeepsFile ==
    /\ [][(/\ caller = "gui" /\ pc = "emitted" /\ pc' = "idle"
           /\ ValueOf(result).audio_data = None) =>
              /\ loaded' = loaded
              /\ current_frame' = current_frame
              /\ open_button'
              /\ processing_thread' = None]_vars
    /\ []((caller = "gui" /\ pc = "idle") => (open_button /\ processing_thread = None))

\* A file was loaded and played up to some frame; the next file could not be
\* decoded, and its failure has been handled: the first file is still stored
\* and the position is where the playback was paused.
C29_Witness ==
    /\ caller = "gui"
    /\ pc = "idle"
    /\ Len(history) = 2
    /\ EmptyPayload(history[2].payload)
    /\ loaded = Some(history[1].payload)
    /\ current_frame > 0
    /\ open_button
    /\ processing_thread = None

\* Entry x of the two histories is one call's pair: the zeros of a reset, or
\* the pitch and the confidence of one frame of the file on display.
Aligned(x) ==
    \/ pitch_history[x] = 0 /\ confidence_history[x].n = 0
    \/ /\ loaded # None
       /\ \E j \in 1..Len(PitchData) :
              /\ pitch_history[x] = PitchData[j]
              /\ confidence_history[x] = ConfidenceData[j]

====
